---------------------------- MODULE Spec2Model ----------------------------
(* State-machine model of preprocessing.py: the PDF loader (pdf_file_load,  *)
(* api_key_load), the page merger (merge_documents_to_single_markdown),     *)
(* the per-page writer (save_documents_as_markdown) and the pipeline run(). *)
(* Strings are sequences of one-character strings, so that split, join,     *)
(* lower, endswith, splitext and basename are computed, not assumed.        *)
EXTENDS Naturals, Integers, Sequences, FiniteSets, TLC

VARIABLES
    environ,     \* process environment after load_dotenv(): name -> value
    dataDir,     \* what the path "data" is on disk: kind, readable, listing
    parser,      \* what the external parser does for each listed file
    outDir,      \* the output folder: exists, files (name -> content)
    documents,   \* the page sequence handed to the merger / per-page writer
    op,          \* the operation that has run ("idle" before any)
    arg,         \* its path / filename argument
    ret,         \* the mapping pdf_file_load returned (insertion-ordered)
    raised,      \* TRUE iff the operation raised to its caller
    calls,       \* the filesystem and parser calls it made, in order
    pieces       \* the strings the merger appended to merged_content, in order

vars == <<environ, dataDir, parser, outDir, documents, op, arg, ret, raised, calls, pieces>>

-----------------------------------------------------------------------------
(* Bounds *)

MaxLen == 4           \* longest page text (characters)
MaxPages == 2         \* longest page sequence handed to merger / writer
MaxFiles == 2         \* most entries in the input folder
MaxParsedPages == 2   \* most pages the parser returns for one PDF

-----------------------------------------------------------------------------
(* Strings *)

NL == "\n"
Chars == {"x", NL}

Str(n) == UNION {[1..k -> Chars] : k \in 0..n}

EndsWith(s, suffix) ==
    /\ Len(s) >= Len(suffix)
    /\ SubSeq(s, Len(s) - Len(suffix) + 1, Len(s)) = suffix

LowerChar(c) ==
    CASE c = "A" -> "a"
      [] c = "B" -> "b"
      [] c = "D" -> "d"
      [] c = "F" -> "f"
      [] c = "P" -> "p"
      [] c = "T" -> "t"
      [] c = "X" -> "x"
      [] OTHER -> c

Lower(s) == [i \in 1..Len(s) |-> LowerChar(s[i])]

\* str.rfind(ch): the last index of ch in s, 0 when there is none (1-based)
RFind(s, ch) ==
    LET hits == {i \in 1..Len(s) : s[i] = ch}
    IN  IF hits = {} THEN 0 ELSE CHOOSE i \in hits : \A j \in hits : j <= i

\* os.path.join(a, b) on POSIX
PathJoin(a, b) ==
    IF Len(b) > 0 /\ b[1] = "/" THEN b
    ELSE IF a = <<>> \/ EndsWith(a, <<"/">>) THEN a \o b
    ELSE a \o <<"/">> \o b

\* os.path.basename(p)
Basename(p) == SubSeq(p, RFind(p, "/") + 1, Len(p))

\* os.path.splitext(p)[0]: cut at the last dot of the last component, unless
\* only dots precede it in that component
SplitextRoot(p) ==
    LET sepIndex == RFind(p, "/")
        dotIndex == RFind(p, ".")
    IN  IF /\ dotIndex > sepIndex
           /\ \E k \in (sepIndex + 1)..(dotIndex - 1) : p[k] # "."
        THEN SubSeq(p, 1, dotIndex - 1)
        ELSE p

\* str.split("\n\n"): leftmost, non-overlapping occurrences of the separator
RECURSIVE Split(_)
Split(s) ==
    LET hits == {j \in 1..(Len(s) - 1) : s[j] = NL /\ s[j + 1] = NL}
    IN  IF hits = {} THEN <<s>>
        ELSE LET j == CHOOSE h \in hits : \A g \in hits : h <= g
             IN  <<SubSeq(s, 1, j - 1)>> \o Split(SubSeq(s, j + 2, Len(s)))

\* sep.join(parts)
RECURSIVE Join(_, _)
Join(sep, parts) ==
    IF Len(parts) = 0 THEN <<>>
    ELSE IF Len(parts) = 1 THEN parts[1]
    ELSE parts[1] \o sep \o Join(sep, Tail(parts))

\* str(n) for n >= 0
Digit(d) == <<"0", "1", "2", "3", "4", "5", "6", "7", "8", "9">>[d + 1]

RECURSIVE IntToStr(_)
IntToStr(n) ==
    IF n < 10 THEN <<Digit(n)>> ELSE IntToStr(n \div 10) \o <<Digit(n % 10)>>

-----------------------------------------------------------------------------
(* Values *)

None == "None"
KeyName == "LLAMA_CLOUD_API_KEY"
KeyValues == {"", "llx-0123456789"}

\* os.getenv(name)
Getenv(env, name) == IF name \in DOMAIN env THEN env[name] ELSE None

\* Python truthiness of a str-or-None
Truthy(v) == v # None /\ v # ""

EmptyPath == <<>>
DataPath == <<"d", "a", "t", "a">>
FolderPaths == {EmptyPath, DataPath}

FileNames == {
    <<"a", ".", "p", "d", "f">>,
    <<"a", ".", "P", "D", "F">>,
    <<"b", ".", "p", "d", "f">>,
    <<"b", ".", "t", "x", "t">> }

MdExt == <<".", "m", "d">>
DocumentPrefix == <<"d", "o", "c", "u", "m", "e", "n", "t", "_">>
DefaultMergedName == <<"m", "e", "r", "g", "e", "d", "_", "d", "o", "c", "u", "m", "e", "n", "t">>
OutPath == <<"p", "d", "f", "2", "m", "a", "r", "k", "d", "o", "w", "n">>
StalePath == PathJoin(OutPath, <<"a">> \o MdExt)
StaleText == <<"x">>

\* a Document is a record with the page's text
Doc(t) == [text |-> t]

DocumentSets(maxPages, texts) ==
    UNION {[1..n -> {Doc(t) : t \in texts}] : n \in 0..maxPages}

\* what one parser call does: raises, or returns the PDF's pages
ParseError == [raises |-> TRUE, docs |-> <<>>]
Parsed(docs) == [raises |-> FALSE, docs |-> docs]
SampleText == <<"x", NL, NL, "x">>
ParserOutcomes ==
    {ParseError} \cup {Parsed(d) : d \in DocumentSets(MaxParsedPages, {SampleText})}

\* listings: the entries of a folder in the order os.listdir yields them
Listings ==
    {l \in UNION {[1..n -> FileNames] : n \in 0..MaxFiles} :
        \A i, j \in 1..Len(l) : i # j => l[i] # l[j]}

Range(f) == {f[i] : i \in DOMAIN f}

NoFiles == [n \in {} |-> <<>>]
OutDirs == {[exists |-> FALSE, files |-> NoFiles],
            [exists |-> TRUE, files |-> [n \in {StalePath} |-> StaleText]]}

\* an insertion-ordered dict: a sequence of <<key, value>> with distinct keys
Keys(d) == {d[i][1] : i \in 1..Len(d)}
Get(d, k) == (CHOOSE i \in 1..Len(d) : d[i][1] = k)
Value(d, k) == d[Get(d, k)][2]
DictSet(d, k, v) ==
    IF k \in Keys(d) THEN [d EXCEPT ![Get(d, k)] = <<k, v>>]
    ELSE Append(d, <<k, v>>)

Call(fn, a) == [fn |-> fn, arg |-> a]

-----------------------------------------------------------------------------
(* The filesystem as the program sees it *)

\* os.path.exists / os.path.isdir on the input side
Exists(dir, path) == path = DataPath /\ dir.kind # "missing"
IsDir(dir, path) == path = DataPath /\ dir.kind = "dir"

\* f.write(content) on open(filepath, "w"): creates or overwrites
WriteFile(out, filepath, content) ==
    [out EXCEPT !.files =
        [f \in DOMAIN out.files \cup {filepath} |->
            IF f = filepath THEN content ELSE out.files[f]]]

\* if not os.path.exists(output_folder): os.makedirs(output_folder)
EnsureFolder(out) == [out EXCEPT !.exists = TRUE]
EnsureFolderCalls(out) ==
    <<Call("exists", OutPath)>> \o
    (IF out.exists THEN <<>> ELSE <<Call("makedirs", OutPath)>>)

-----------------------------------------------------------------------------
(* api_key_load *)

\* returns the key, or raises ValueError when it is unset or empty
api_key_load(env) ==
    LET LLAMA_CLOUD_API_KEY == Getenv(env, KeyName)
    IN  IF ~Truthy(LLAMA_CLOUD_API_KEY)
        THEN [exc |-> "ValueError", value |-> None]
        ELSE [exc |-> None, value |-> LLAMA_CLOUD_API_KEY]

-----------------------------------------------------------------------------
(* pdf_file_load *)

PdfSuffix == <<".", "p", "d", "f">>

\* file.lower().endswith(".pdf")
IsPdf(file) == EndsWith(Lower(file), PdfSuffix)

\* the pdf_files list: the matching entries, in listing order, as paths
PdfFiles(listing, folder_path) ==
    LET kept == SelectSeq(listing, IsPdf)
    IN  [i \in 1..Len(kept) |-> PathJoin(folder_path, kept[i])]

\* os.path.splitext(os.path.basename(pdf_file))[0]
Stem(pdf_file) == SplitextRoot(Basename(pdf_file))

\* variant: a failing parser call is skipped and the loop goes on
RECURSIVE ParseLoopSkipFailed(_, _, _, _, _)
ParseLoopSkipFailed(psr, pdf_files, i, result_dict, log) ==
    IF i > Len(pdf_files)
    THEN [exc |-> None, ret |-> result_dict, calls |-> log]
    ELSE LET pdf_file == pdf_files[i]
             loaded == psr[pdf_file]
             log1 == Append(log, Call("parse", pdf_file))
         IN  IF loaded.raises
             THEN ParseLoopSkipFailed(psr, pdf_files, i + 1, result_dict, log1)
             ELSE ParseLoopSkipFailed(psr, pdf_files, i + 1,
                      DictSet(result_dict, Stem(pdf_file), loaded.docs), log1)

\* the loop over pdf_files: one parser call per file; a failing call raises
\* out of the loop
RECURSIVE ParseLoop(_, _, _, _, _)
ParseLoop(psr, pdf_files, i, result_dict, log) ==
    IF i > Len(pdf_files)
    THEN [exc |-> None, ret |-> result_dict, calls |-> log]
    ELSE LET pdf_file == pdf_files[i]
             filename == Stem(pdf_file)
             loaded == psr[pdf_file]
             log1 == Append(log, Call("parse", pdf_file))
         IN  IF loaded.raises
             THEN [exc |-> "Exception", ret |-> result_dict, calls |-> log1]
             ELSE ParseLoop(psr, pdf_files, i + 1,
                            DictSet(result_dict, filename, loaded.docs), log1)

\* variant: the credential is loaded only after the folder has been listed
PdfFileLoadBodyKeyLast(env, dir, psr, folder_path) ==
    LET key == api_key_load(env)
        c1 == <<Call("exists", folder_path)>>
        c2 == Append(c1, Call("isdir", folder_path))
        c3 == Append(c2, Call("listdir", folder_path))
        pdf_files == PdfFiles(dir.listing, folder_path)
    IN  IF ~Exists(dir, folder_path)
        THEN [exc |-> None, ret |-> <<>>, calls |-> c1]
        ELSE IF ~IsDir(dir, folder_path)
        THEN [exc |-> None, ret |-> <<>>, calls |-> c2]
        ELSE IF ~dir.readable
        THEN [exc |-> "PermissionError", ret |-> <<>>, calls |-> c3]
        ELSE IF pdf_files = <<>>
        THEN [exc |-> None, ret |-> <<>>, calls |-> c3]
        ELSE IF key.exc # None
        THEN [exc |-> key.exc, ret |-> <<>>, calls |-> c3]
        ELSE ParseLoop(psr, pdf_files, 1, <<>>, c3)

\* the body of the try block
PdfFileLoadBody(env, dir, psr, folder_path) ==
    LET key == api_key_load(env)
        c1 == <<Call("exists", folder_path)>>
        c2 == Append(c1, Call("isdir", folder_path))
        c3 == Append(c2, Call("listdir", folder_path))
        pdf_files == PdfFiles(dir.listing, folder_path)
    IN  IF key.exc # None
        THEN [exc |-> key.exc, ret |-> <<>>, calls |-> <<>>]
        ELSE IF ~Exists(dir, folder_path)
        THEN [exc |-> None, ret |-> <<>>, calls |-> c1]
        ELSE IF ~IsDir(dir, folder_path)
        THEN [exc |-> None, ret |-> <<>>, calls |-> c2]
        ELSE IF ~dir.readable
        THEN [exc |-> "PermissionError", ret |-> <<>>, calls |-> c3]
        ELSE IF pdf_files = <<>>
        THEN [exc |-> None, ret |-> <<>>, calls |-> c3]
        ELSE ParseLoop(psr, pdf_files, 1, <<>>, c3)

\* the exception classes the two except clauses catch
Caught == {"PermissionError", "ValueError", "Exception"}

\* variant: the handlers return what had been parsed before the exception
PdfFileLoadHandlersPartial(body) ==
    [raised |-> FALSE, ret |-> body.ret, calls |-> body.calls]

\* variant: only PermissionError is handled, anything else propagates
PdfFileLoadHandlersNarrow(body) ==
    IF body.exc = None
    THEN [raised |-> FALSE, ret |-> body.ret, calls |-> body.calls]
    ELSE IF body.exc = "PermissionError"
    THEN [raised |-> FALSE, ret |-> <<>>, calls |-> body.calls]
    ELSE [raised |-> TRUE, ret |-> <<>>, calls |-> body.calls]

\* the except clauses: the result of the call given the exception raised
PdfFileLoadHandlers(body) ==
    IF body.exc = None
    THEN [raised |-> FALSE, ret |-> body.ret, calls |-> body.calls]
    ELSE IF body.exc = "PermissionError"
    THEN [raised |-> FALSE, ret |-> <<>>, calls |-> body.calls]
    ELSE IF body.exc \in Caught
    THEN [raised |-> FALSE, ret |-> <<>>, calls |-> body.calls]
    ELSE [raised |-> TRUE, ret |-> <<>>, calls |-> body.calls]

pdf_file_load(env, dir, psr, folder_path) ==
    PdfFileLoadHandlers(PdfFileLoadBody(env, dir, psr, folder_path))

-----------------------------------------------------------------------------
(* merge_documents_to_single_markdown *)

Space == <<" ">>

\* variant: the first page is stripped like the others
PageBodyEveryPage(i, text) ==
    IF text # <<>> THEN Join(<<NL>>, Tail(Split(text))) ELSE text

\* variant: a page that is a single paragraph is kept
PageBodyKeepSingle(i, text) ==
    IF i > 0 /\ text # <<>>
    THEN LET lines == Split(text)
         IN  IF Len(lines) > 1 THEN Join(<<NL>>, Tail(lines)) ELSE text
    ELSE text

\* the text a page contributes before the trailing space: pages after the
\* first with non-empty text lose everything up to the first paragraph break
PageBody(i, text) ==
    IF i > 0 /\ text # <<>>
    THEN LET lines == Split(text)
         IN  IF Len(lines) > 0 THEN Join(<<NL>>, Tail(lines)) ELSE text
    ELSE text

\* the loop over enumerate(documents); i is the 0-based page index
RECURSIVE MergeLoop(_, _, _, _)
MergeLoop(docs, i, merged_content, appended) ==
    IF i >= Len(docs)
    THEN [content |-> merged_content, pieces |-> appended]
    ELSE LET current_text == PageBody(i, docs[i + 1].text) \o Space
         IN  MergeLoop(docs, i + 1, merged_content \o current_text,
                       Append(appended, current_text))

\* variant: the filename argument is ignored and the default name used
MergedFilepathDefault(filename) == PathJoin(OutPath, DefaultMergedName \o MdExt)

MergedFilepath(filename) == PathJoin(OutPath, filename \o MdExt)

merge_documents_to_single_markdown(docs, out, filename) ==
    LET merged == MergeLoop(docs, 0, <<>>, <<>>)
        merged_filepath == MergedFilepath(filename)
    IN  [out |-> WriteFile(EnsureFolder(out), merged_filepath, merged.content),
         calls |-> Append(EnsureFolderCalls(out), Call("write", merged_filepath)),
         pieces |-> merged.pieces]

-----------------------------------------------------------------------------
(* save_documents_as_markdown *)

\* variant: the files are numbered from 0
DocumentFilepathZeroBased(i) == PathJoin(OutPath, DocumentPrefix \o IntToStr(i) \o MdExt)

\* f"document_{i+1}.md" under the output folder; i is the 0-based page index
DocumentFilepath(i) == PathJoin(OutPath, DocumentPrefix \o IntToStr(i + 1) \o MdExt)

RECURSIVE SaveLoop(_, _, _, _)
SaveLoop(docs, i, out, log) ==
    IF i >= Len(docs)
    THEN [out |-> out, calls |-> log]
    ELSE SaveLoop(docs, i + 1,
                  WriteFile(out, DocumentFilepath(i), docs[i + 1].text),
                  Append(log, Call("write", DocumentFilepath(i))))

save_documents_as_markdown(docs, out) ==
    SaveLoop(docs, 0, EnsureFolder(out), EnsureFolderCalls(out))

-----------------------------------------------------------------------------
(* run *)

\* variant: every entry is merged, empty page sequences included
RECURSIVE RunLoopNoGuard(_, _, _, _)
RunLoopNoGuard(pdf_documents, i, out, log) ==
    IF i > Len(pdf_documents)
    THEN [out |-> out, calls |-> log]
    ELSE LET m == merge_documents_to_single_markdown(
                      pdf_documents[i][2], out, pdf_documents[i][1])
         IN  RunLoopNoGuard(pdf_documents, i + 1, m.out, log \o m.calls)

\* the loop over pdf_documents.items(): a merge per non-empty page sequence
RECURSIVE RunLoop(_, _, _, _)
RunLoop(pdf_documents, i, out, log) ==
    IF i > Len(pdf_documents)
    THEN [out |-> out, calls |-> log]
    ELSE LET filename == pdf_documents[i][1]
             docs == pdf_documents[i][2]
             m == merge_documents_to_single_markdown(docs, out, filename)
         IN  IF docs # <<>>
             THEN RunLoop(pdf_documents, i + 1, m.out, log \o m.calls)
             ELSE RunLoop(pdf_documents, i + 1, out, log)

run(env, dir, psr, out) ==
    LET loaded == pdf_file_load(env, dir, psr, DataPath)
        looped == RunLoop(loaded.ret, 1, out, loaded.calls)
    IN  IF loaded.raised
        THEN [raised |-> TRUE, ret |-> loaded.ret, out |-> out, calls |-> loaded.calls]
        ELSE [raised |-> FALSE, ret |-> loaded.ret, out |-> looped.out,
              calls |-> looped.calls]

-----------------------------------------------------------------------------
(* The pipeline: the loader and run() against an environment *)

Environs == {[n \in {} |-> ""]} \cup {[n \in {KeyName} |-> v] : v \in KeyValues}

DataDirs ==
    {[kind |-> "missing", readable |-> TRUE, listing |-> <<>>],
     [kind |-> "file", readable |-> TRUE, listing |-> <<>>]}
    \cup {[kind |-> "dir", readable |-> r, listing |-> l] :
            r \in BOOLEAN, l \in Listings}

Init ==
    /\ environ \in Environs
    /\ dataDir \in DataDirs
    /\ parser \in [{PathJoin(DataPath, n) : n \in Range(dataDir.listing)}
                    -> ParserOutcomes]
    /\ outDir \in OutDirs
    /\ documents = <<>>
    /\ op = "idle"
    /\ arg = <<>>
    /\ ret = <<>>
    /\ raised = FALSE
    /\ calls = <<>>
    /\ pieces = <<>>

PdfFileLoadCall ==
    /\ op = "idle"
    /\ \E folder_path \in FolderPaths :
        LET r == pdf_file_load(environ, dataDir, parser, folder_path)
        IN  /\ op' = "pdf_file_load"
            /\ arg' = folder_path
            /\ ret' = r.ret
            /\ raised' = r.raised
            /\ calls' = r.calls
    /\ UNCHANGED <<environ, dataDir, parser, outDir, documents, pieces>>

RunCall ==
    /\ op = "idle"
    /\ LET r == run(environ, dataDir, parser, outDir)
       IN  /\ op' = "run"
           /\ arg' = DataPath
           /\ ret' = r.ret
           /\ raised' = r.raised
           /\ outDir' = r.out
           /\ calls' = r.calls
    /\ UNCHANGED <<environ, dataDir, parser, documents, pieces>>

Next == PdfFileLoadCall \/ RunCall

Spec == Init /\ [][Next]_vars

-----------------------------------------------------------------------------
(* The page functions: merger and per-page writer on any page sequence *)

Texts == Str(MaxLen)
MergeNames == {DefaultMergedName, <<"a">>}

InitPages ==
    /\ environ \in {[n \in {KeyName} |-> "llx-0123456789"]}
    /\ dataDir = [kind |-> "missing", readable |-> TRUE, listing |-> <<>>]
    /\ parser = <<>>
    /\ outDir \in OutDirs
    /\ documents \in DocumentSets(MaxPages, Texts)
    /\ op = "idle"
    /\ arg = <<>>
    /\ ret = <<>>
    /\ raised = FALSE
    /\ calls = <<>>
    /\ pieces = <<>>

MergeCall ==
    /\ op = "idle"
    /\ \E filename \in MergeNames :
        LET r == merge_documents_to_single_markdown(documents, outDir, filename)
        IN  /\ op' = "merge"
            /\ arg' = filename
            /\ outDir' = r.out
            /\ calls' = r.calls
            /\ pieces' = r.pieces
    /\ UNCHANGED <<environ, dataDir, parser, documents, ret, raised>>

SaveCall ==
    /\ op = "idle"
    /\ LET r == save_documents_as_markdown(documents, outDir)
       IN  /\ op' = "save"
           /\ outDir' = r.out
           /\ calls' = r.calls
    /\ UNCHANGED <<environ, dataDir, parser, documents, arg, ret, raised, pieces>>

NextPages == MergeCall \/ SaveCall

SpecPages == InitPages /\ [][NextPages]_vars

-----------------------------------------------------------------------------
(* Vocabulary of the properties *)

Loaded == op = "pdf_file_load"
Ran == op = "run"
Merged == op = "merge"
Saved == op = "save"

KeyAbsent == KeyName \notin DOMAIN environ
KeyPresent == Truthy(Getenv(environ, KeyName))

\* the calls of one kind, in the order made
CallsOf(fn) == SelectSeq(calls, LAMBDA c : c.fn = fn)
ParserCalls == CallsOf("parse")
WrittenIn(log) == {log[i].arg : i \in {j \in 1..Len(log) : log[j].fn = "write"}}
Written == WrittenIn(calls)

\* the PDFs of the input folder, as the paths the parser is given
InputPdfs == PdfFiles(dataDir.listing, DataPath)
ReadableDir == dataDir.kind = "dir" /\ dataDir.readable

\* the loader got as far as its parse loop over the folder "data"
LoopReached == arg = DataPath /\ KeyPresent /\ ReadableDir

NoParseFails == \A i \in 1..Len(InputPdfs) : ~parser[InputPdfs[i]].raises
ParsedBy(i) == Call("parse", InputPdfs[i]) \in Range(ParserCalls)

HasBreak(text) == \E j \in 1..(Len(text) - 1) : text[j] = NL /\ text[j + 1] = NL

RECURSIVE ConcatAll(_)
ConcatAll(ss) == IF ss = <<>> THEN <<>> ELSE Head(ss) \o ConcatAll(Tail(ss))

-----------------------------------------------------------------------------
(* C1 *)

-----------------------------------------------------------------------------
(* C3 *)

\* C3 as stated: for a folder with N files of case-insensitive extension
\* .pdf, the credential present and no parser call failing, the returned
\* mapping has exactly N entries, one keyed by the stem of each PDF.
C3_OneEntryPerPdf ==
    (Loaded /\ LoopReached /\ NoParseFails) =>
        /\ Len(ret) = Len(InputPdfs)
        /\ Keys(ret) = {Stem(InputPdfs[i]) : i \in 1..Len(InputPdfs)}

-----------------------------------------------------------------------------
(* C4 *)

\* C4: when the parse of the k-th PDF raises, pdf_file_load returns an empty
\* mapping, whatever was parsed before it in that call.
C4_FailureDiscardsAll ==
    Loaded =>
        \A k \in 1..Len(InputPdfs) :
            (LoopReached /\ ParsedBy(k) /\ parser[InputPdfs[k]].raises) =>
                (ret = <<>> /\ ~raised)

C4_Witness ==
    /\ Loaded /\ LoopReached /\ Len(InputPdfs) = 2
    /\ ~parser[InputPdfs[1]].raises /\ parser[InputPdfs[1]].docs # <<>>
    /\ parser[InputPdfs[2]].raises
    /\ Len(ParserCalls) = 2
    /\ ret = <<>>

-----------------------------------------------------------------------------
(* C6 *)

\* C6: for a folder path that is empty, does not exist or is not a
\* directory, pdf_file_load returns an empty mapping, does not raise and
\* makes no parser call.
C6_BadFolderReturnsEmpty ==
    (Loaded /\ (arg = EmptyPath \/ ~Exists(dataDir, arg) \/ ~IsDir(dataDir, arg))) =>
        (ret = <<>> /\ ~raised /\ ParserCalls = <<>>)

C6_Witness ==
    /\ Loaded /\ KeyPresent /\ arg = DataPath /\ dataDir.kind = "file"
    /\ calls = <<Call("exists", DataPath), Call("isdir", DataPath)>>

-----------------------------------------------------------------------------
(* C8 *)

\* the index of the first PDF whose parse raises, or the number of PDFs
FirstFailure ==
    LET failing == {i \in 1..Len(InputPdfs) : parser[InputPdfs[i]].raises}
    IN  IF failing = {} THEN Len(InputPdfs)
        ELSE CHOOSE i \in failing : \A j \in failing : i <= j

\* C8: pdf_file_load makes one parser call per PDF in listing order and none
\* after a call that raised: N calls when none fails, k when the k-th fails.
C8_SequentialUntilFailure ==
    (Loaded /\ LoopReached) =>
        ParserCalls = [i \in 1..FirstFailure |-> Call("parse", InputPdfs[i])]

C8_Witness ==
    /\ Loaded /\ LoopReached /\ Len(InputPdfs) = 2
    /\ parser[InputPdfs[1]].raises /\ ~parser[InputPdfs[2]].raises
    /\ Len(ParserCalls) = 1

-----------------------------------------------------------------------------
(* C5 *)

AllParsed ==
    /\ Len(InputPdfs) > 0
    /\ \A i \in 1..Len(InputPdfs) : ParsedBy(i) /\ ~parser[InputPdfs[i]].raises

-----------------------------------------------------------------------------
(* C10 *)

\* the stems the loaded mapping maps to a non-empty page sequence
NonEmptyStems(d) == {k \in Keys(d) : Value(d, k) # <<>>}

\* C10: run() writes <stem>.md exactly for the stems whose loaded page
\* sequence is non-empty, leaves every other file as it was, and leaves the
\* output folder untouched (not even created) when there is no such stem.
C10_RunWritesOnlyNonEmpty ==
    [][op' = "run" =>
        LET targets == {MergedFilepath(k) : k \in NonEmptyStems(ret')}
            written == WrittenIn(calls')
        IN  /\ written = targets
            /\ DOMAIN outDir'.files = DOMAIN outDir.files \cup targets
            /\ \A f \in DOMAIN outDir.files \ targets :
                   outDir'.files[f] = outDir.files[f]
            /\ targets = {} => outDir' = outDir
      ]_vars

C10_Witness ==
    /\ Ran /\ AllParsed /\ Len(ret) = 2
    /\ Cardinality(NonEmptyStems(ret)) = 0
    /\ ~outDir.exists /\ Written = {}

-----------------------------------------------------------------------------
(* C2 *)

\* t(i) of C2: page 0 verbatim; later pages split on the double newline,
\* first piece dropped, the rest joined with one newline
StatedPageText(i, text) ==
    IF i = 0 THEN text ELSE Join(<<NL>>, Tail(Split(text)))

-----------------------------------------------------------------------------
(* C9 *)

-----------------------------------------------------------------------------
(* C7 *)

\* document_<n>.md for n in 1..9, spelled out
StatedDocumentPath(n) ==
    OutPath \o <<"/">> \o DocumentPrefix
        \o <<<<"1", "2", "3", "4", "5", "6", "7", "8", "9">>[n]>> \o MdExt

\* C7: for n pages the per-page writer writes exactly document_1.md ..
\* document_n.md, document_<i+1>.md holding page i's text verbatim, and no
\* other file.
C7_FilePerPage ==
    Saved =>
        /\ CallsOf("write") =
               [n \in 1..Len(documents) |-> Call("write", StatedDocumentPath(n))]
        /\ \A n \in 1..Len(documents) :
               outDir.files[StatedDocumentPath(n)] = documents[n].text

C7_Witness ==
    /\ Saved /\ Len(documents) = 2
    /\ documents[1].text = <<"x">>
    /\ documents[2].text = <<"x", NL, NL, "x">>
    /\ outDir.files[StatedDocumentPath(2)] = <<"x", NL, NL, "x">>

=============================================================================
